---- MODULE Spec2Model ----
(***************************************************************************)
(* Model of acts_downloader.py: the folder-name sanitizer, the file        *)
(* downloader with its alternate-URL retry, and the get_acts driver.       *)
(*                                                                         *)
(* Text is a sequence of symbols.  A symbol is either one character        *)
(* (" ", ".", "/", "?", ...) or an indivisible run of characters that no   *)
(* operation of the program splits ("attachment", "gov", "%PDF").          *)
(***************************************************************************)
EXTENDS Integers, Sequences, FiniteSets, TLC

VARIABLES
    name,       \* _safe_dirname: the argument
    sanitized,  \* _safe_dirname: the value returned, NotYet before the call
    fs,         \* the files on disk: path |-> content
    remote,     \* what the servers answer to a GET, fixed for a run
    calls,      \* download_file calls made so far
    last,       \* the last download_file call: arguments and what it did
    prev,       \* target and result of the call before the last one
    pc,         \* get_acts: where the run is
    root,       \* get_acts: the URL it was called with
    title,      \* get_acts: what get_title_from_url returned
    subpages,   \* get_acts: the subpages still to visit
    subtitle,   \* get_acts: title of the subpage being visited
    acts,       \* get_acts: the documents found and not yet downloaded
    ran,        \* get_acts: the branches entered
    log         \* the logger's records

vars == <<name, sanitized, fs, remote, calls, last, prev,
          pc, root, title, subpages, subtitle, acts, ran, log>>

dirVars  == <<name, sanitized>>
dlVars   == <<fs, remote, calls, last, prev>>
actsVars == <<pc, root, title, subpages, subtitle, acts, ran, log>>

\* the variables of get_acts while another operation is specified
ActsIdle ==
    /\ pc = "idle" /\ root = <<>> /\ title = <<>> /\ subpages = <<>>
    /\ subtitle = <<>> /\ acts = <<>> /\ ran = {} /\ log = {}

\* no value yet
NotYet == <<"NotYet">>

\* Python's None
NoneVal == <<"None">>

\* truth value of an Optional[str]: None and "" are false
Truthy(x) == x # NoneVal /\ x # <<>>

\* a or b
PyOr(a, b) == IF Truthy(a) THEN a ELSE b

(***************************************************************************)
(* String primitives of Python used by the program.                        *)
(***************************************************************************)
Min(a, b) == IF a <= b THEN a ELSE b

\* the least and the greatest number of a non-empty set of numbers
Least(S) == CHOOSE x \in S : \A y \in S : x <= y

Greatest(S) == CHOOSE x \in S : \A y \in S : x >= y

\* s[:n]
Prefix(s, n) == SubSeq(s, 1, Min(n, Len(s)))

\* str.lstrip(chars)
LStrip(s, chars) ==
    SubSeq(s, Least({i \in 1..Len(s) : s[i] \notin chars} \cup {Len(s) + 1}), Len(s))

\* str.rstrip(chars)
RStrip(s, chars) ==
    SubSeq(s, 1, Greatest({i \in 1..Len(s) : s[i] \notin chars} \cup {0}))

\* str.strip(chars)
Strip(s, chars) == RStrip(LStrip(s, chars), chars)

\* the characters str.strip() removes when called without an argument
Whitespace == {" ", "\t", "\n"}

\* t in s
Contains(s, t) ==
    \E i \in 1..(Len(s) - Len(t) + 1) : SubSeq(s, i, i + Len(t) - 1) = t

\* s.endswith(t)
EndsWith(s, t) ==
    Len(s) >= Len(t) /\ SubSeq(s, Len(s) - Len(t) + 1, Len(s)) = t

(***************************************************************************)
(* _safe_dirname                                                           *)
(***************************************************************************)
\* the character class [<>:"/\\|?*] of the substitution
Forbidden == {"<", ">", ":", "\"", "/", "\\", "|", "?", "*"}

\* the slice bound of sanitized[:120]
MaxDirLen == 120

\* re.sub(r'[<>:"/\\|?*]+', "_", name): every maximal run of forbidden
\* characters becomes one underscore (the first character of the run is
\* rewritten, the rest of the run is dropped)
Dropped == "DROPPED"

NotDropped(c) == c # Dropped

SubForbidden(s) ==
    SelectSeq([i \in 1..Len(s) |->
                  IF s[i] \notin Forbidden THEN s[i]
                  ELSE IF i > 1 /\ s[i - 1] \in Forbidden THEN Dropped
                  ELSE "_"],
              NotDropped)

Untitled == <<"u", "n", "t", "i", "t", "l", "e", "d">>

_safe_dirname(n) ==
    PyOr(Prefix(Strip(Strip(SubForbidden(n), Whitespace), {" ", "."}), MaxDirLen),
         Untitled)

(***************************************************************************)
(* urllib.parse.urlparse and os.path.basename, on absolute URLs            *)
(* scheme "//" netloc path [ "?" query ] [ "#" fragment ].                 *)
(***************************************************************************)
\* index of the first symbol of s at or after i that is in stop, Len(s) + 1
\* when there is none
FirstIn(s, i, stop) ==
    Least({j \in i..Len(s) : s[j] \in stop} \cup {Len(s) + 1})

\* what follows scheme "//"
AfterScheme(url) == SubSeq(url, 4, Len(url))

\* urlparse(url).netloc
NetlocOf(r) == SubSeq(r, 1, FirstIn(r, 1, {"/", "?", "#"}) - 1)

Netloc(url) == NetlocOf(AfterScheme(url))

\* urlparse(url).path
PathFrom(r, b) == SubSeq(r, b, FirstIn(r, b, {"?", "#"}) - 1)

PathOf(r) == PathFrom(r, FirstIn(r, 1, {"/", "?", "#"}))

UrlPath(url) == PathOf(AfterScheme(url))

\* os.path.basename(p): what follows the last "/"
Basename(p) ==
    SubSeq(p, Greatest({i \in 1..Len(p) : p[i] = "/"} \cup {0}) + 1, Len(p))

(***************************************************************************)
(* _filename_from_cd: three regular-expression searches over the header.   *)
(* Each XxxAt(s, i) is the group captured by a match that starts at i, or  *)
(* NoneVal; re.search takes the leftmost start that matches.               *)
(***************************************************************************)
\* \s* from i: index of the first symbol that is not whitespace
SkipWs(s, i) ==
    Least({j \in i..Len(s) : s[j] \notin Whitespace} \cup {Len(s) + 1})

Sym(s, i) == IF i \in 1..Len(s) THEN s[i] ELSE "EOS"

\* filename\*\s*=\s*[^']+'[^']*'([^;]+) matched from i, with "=" at eq, the
\* two quotes at q1 and q2 and the group ending before e
ExtendedGroup(s, i, eq, q1, q2, e) ==
    IF /\ Sym(s, i) = "filename" /\ Sym(s, i + 1) = "*"
       /\ Sym(s, eq) = "="
       /\ q1 > eq + 1 /\ q1 <= Len(s)
       /\ q2 <= Len(s)
       /\ e > q2 + 1
    THEN SubSeq(s, q2 + 1, e - 1)
    ELSE NoneVal

ExtendedQuote2(s, i, eq, q1, q2) ==
    ExtendedGroup(s, i, eq, q1, q2, FirstIn(s, q2 + 1, {";"}))

ExtendedQuote1(s, i, eq, q1) ==
    ExtendedQuote2(s, i, eq, q1, FirstIn(s, q1 + 1, {"'"}))

ExtendedEq(s, i, eq) == ExtendedQuote1(s, i, eq, FirstIn(s, eq + 1, {"'"}))

ExtendedAt(s, i) == ExtendedEq(s, i, SkipWs(s, i + 2))

\* filename\s*=\s*"([^"]+)" matched from i, with "=" at eq, the opening
\* quote at o and the closing quote at c
QuotedGroup(s, i, eq, o, c) ==
    IF /\ Sym(s, i) = "filename"
       /\ Sym(s, eq) = "="
       /\ Sym(s, o) = "\""
       /\ c > o + 1 /\ c <= Len(s)
    THEN SubSeq(s, o + 1, c - 1)
    ELSE NoneVal

QuotedOpen(s, i, eq, o) == QuotedGroup(s, i, eq, o, FirstIn(s, o + 1, {"\""}))

QuotedEq(s, i, eq) == QuotedOpen(s, i, eq, SkipWs(s, eq + 1))

QuotedAt(s, i) == QuotedEq(s, i, SkipWs(s, i + 1))

\* filename\s*=\s*([^;]+) matched from i, with "=" at eq, the first symbol
\* after the whitespace at b and the group ending before e; when only
\* whitespace is left before the ";" or the end, \s* gives back its last
\* symbol to the group
BareGroup(s, i, eq, b, e) ==
    IF Sym(s, i) = "filename" /\ Sym(s, eq) = "="
    THEN IF e > b THEN SubSeq(s, b, e - 1)
         ELSE IF b > eq + 1 THEN SubSeq(s, b - 1, b - 1)
         ELSE NoneVal
    ELSE NoneVal

BareStart(s, i, eq, b) == BareGroup(s, i, eq, b, FirstIn(s, b, {";"}))

BareEq(s, i, eq) == BareStart(s, i, eq, SkipWs(s, eq + 1))

BareAt(s, i) == BareEq(s, i, SkipWs(s, i + 1))

\* re.search: the group of the match at the leftmost start that matches,
\* NoneVal when no start matches
SearchExtended(s) ==
    ExtendedAt(s, Least({i \in 1..Len(s) : ExtendedAt(s, i) # NoneVal} \cup {Len(s) + 1}))

SearchQuoted(s) ==
    QuotedAt(s, Least({i \in 1..Len(s) : QuotedAt(s, i) # NoneVal} \cup {Len(s) + 1}))

SearchBare(s) ==
    BareAt(s, Least({i \in 1..Len(s) : BareAt(s, i) # NoneVal} \cup {Len(s) + 1}))

\* the three searches in the order the function makes them; the bare
\* group is stripped
FirstMatch(extended, quoted, bare) ==
    IF extended # NoneVal THEN extended
    ELSE IF quoted # NoneVal THEN quoted
    ELSE IF bare # NoneVal THEN Strip(bare, Whitespace)
    ELSE NoneVal

\* the quoted form tried before the extended form
_filename_from_cd_QuotedFirst(content_disposition) ==
    IF ~Truthy(content_disposition) THEN NoneVal
    ELSE FirstMatch(SearchQuoted(content_disposition),
                    SearchExtended(content_disposition),
                    SearchBare(content_disposition))

_filename_from_cd(content_disposition) ==
    IF ~Truthy(content_disposition) THEN NoneVal
    ELSE FirstMatch(SearchExtended(content_disposition),
                    SearchQuoted(content_disposition),
                    SearchBare(content_disposition))

(***************************************************************************)
(* _looks_like_pdf                                                         *)
(***************************************************************************)
PdfMagic == <<"%", "P", "D", "F">>

\* the bytes bytes.lstrip() removes
ByteWhitespace == {" ", "\t", "\n", "\r"}

\* str.lower(), symbol by symbol
LowerSym(c) ==
    CASE c = "PDF" -> "pdf"
      [] c = "Application" -> "application"
      [] OTHER -> c

Lower(s) == [i \in 1..Len(s) |-> LowerSym(s[i])]

\* headers.get(key, default)
HeaderGet(headers, key, default) ==
    IF key \in DOMAIN headers THEN headers[key] ELSE default

_looks_like_pdf(content, headers) ==
    IF Prefix(content, 4) = PdfMagic THEN TRUE
    ELSE IF Prefix(LStrip(content, ByteWhitespace), 4) = PdfMagic THEN TRUE
    ELSE Contains(Lower(HeaderGet(headers, "Content-Type", <<>>)), <<"pdf">>)

(***************************************************************************)
(* download_file                                                           *)
(***************************************************************************)
\* A response of the HTTP collaborator: ok is FALSE when requests.get or
\* raise_for_status raises requests.RequestException.
\* _download_once: the GET of url and the whole body
_download_once(web, url) ==
    IF EndsWith(url, <<"/", "download">>) THEN web.altA
    ELSE IF EndsWith(url, <<"download=1">>) THEN web.altB
    ELSE web.primary

\* The files on disk are a set of <<path, content>> with one content per
\* path.
\* an existence check that never finds the file
PathExists_Never(files, p) == FALSE

\* os.path.exists
PathExists(files, p) == \E f \in files : f[1] = p

\* with open(p, "wb") as f: f.write(content)
WriteFile(files, p, content) ==
    {f \in files : f[1] # p} \cup {<<p, content>>}

\* no path
NoPath == <<>>

\* a retry loop without the except clause
Caught_Nothing(exc) == FALSE

\* the except clause of the retry loop: the exceptions it catches
Caught(exc) == exc = "RequestException"

\* base_dir: folder, then the sanitized title and subtitle when given
BaseDir(folder, dl_title, dl_subtitle) ==
    <<folder>>
    \o (IF Truthy(dl_title) THEN <<_safe_dirname(dl_title)>> ELSE <<>>)
    \o (IF Truthy(dl_subtitle) THEN <<_safe_dirname(dl_subtitle)>> ELSE <<>>)

FallbackName == <<"pobrany_plik">>

\* filename of the primary response
PrimaryFilename(headers, url) ==
    PyOr(_filename_from_cd(HeaderGet(headers, "Content-Disposition", NoneVal)),
         PyOr(Basename(UrlPath(url)), FallbackName))

\* filename2 of an alternate response
AlternateFilename(headers, filename) ==
    PyOr(_filename_from_cd(HeaderGet(headers, "Content-Disposition", NoneVal)), filename)

\* a retry condition that forgets the test of the path
RetryApplies_AnyPath(content, headers, url) ==
    /\ ~_looks_like_pdf(content, headers)
    /\ EndsWith(Netloc(url), <<"gov", ".", "pl">>)

\* the condition under which the alternates are tried
RetryApplies(content, headers, url) ==
    /\ ~_looks_like_pdf(content, headers)
    /\ EndsWith(Netloc(url), <<"gov", ".", "pl">>)
    /\ Contains(UrlPath(url), <<"/", "attachment", "/">>)

\* the candidates in the other order
Candidates_Swapped(url) ==
    << url \o (IF Contains(url, <<"?">>) THEN <<"&", "download=1">>
               ELSE <<"?", "download=1">>),
       RStrip(url, {"/"}) \o <<"/", "download">> >>

\* candidates, in the order of the loop
Candidates(url) ==
    << RStrip(url, {"/"}) \o <<"/", "download">>,
       url \o (IF Contains(url, <<"?">>) THEN <<"&", "download=1">>
               ELSE <<"?", "download=1">>) >>

\* What a call of download_file did.
\* outcome: "returned" or "raised"; ret: the path returned; gets: the URLs
\* fetched, in order; files: the disk afterwards; wrote: the paths opened
\* for writing; source: the URL whose response named and filled the file
Raised(files, gets) ==
    [outcome |-> "raised", ret |-> NoPath, gets |-> gets,
     files |-> files, wrote |-> <<>>, source |-> <<>>]

Returned(files, gets, path, wrote, source) ==
    [outcome |-> "returned", ret |-> path, gets |-> gets,
     files |-> files, wrote |-> wrote, source |-> source]

\* The loop "for alt in candidates", from the i-th candidate on; the
\* outcome is "fell" when the loop ends without a return.
RECURSIVE TryAlternates(_, _, _, _, _, _, _)
RECURSIVE TryOne(_, _, _, _, _, _, _, _)

\* a candidate passed the sniff: return its path, written unless it exists
SaveAlternate(files, gets, dest_path, content, alt) ==
    IF PathExists(files, dest_path)
    THEN Returned(files, gets, dest_path, <<>>, alt)
    ELSE Returned(WriteFile(files, dest_path, content), gets, dest_path,
                  <<dest_path>>, alt)

\* the body of the loop for the i-th candidate, resp2 its response
TryOne(files, web, cands, i, base_dir, filename, gets, resp2) ==
    IF ~resp2.ok
    THEN IF Caught("RequestException")
         THEN TryAlternates(files, web, cands, i + 1, base_dir, filename, gets)
         ELSE Raised(files, gets)
    ELSE IF _looks_like_pdf(resp2.content, resp2.headers)
    THEN SaveAlternate(files, gets,
                       Append(base_dir, AlternateFilename(resp2.headers, filename)),
                       resp2.content, cands[i])
    ELSE TryAlternates(files, web, cands, i + 1, base_dir, filename, gets)

TryAlternates(files, web, cands, i, base_dir, filename, gets) ==
    IF i > Len(cands) THEN [outcome |-> "fell", gets |-> gets]
    ELSE TryOne(files, web, cands, i, base_dir, filename, Append(gets, cands[i]),
                _download_once(web, cands[i]))

\* after the loop, or without it: the primary body goes to dest_path
WritePrimary(files, url, content, dest_path, tried) ==
    IF tried.outcome # "fell" THEN tried
    ELSE Returned(WriteFile(files, dest_path, content), tried.gets, dest_path,
                  <<dest_path>>, url)

\* from the existence check of the primary path on
AtPrimaryPath(files, web, url, base_dir, resp, filename, dest_path) ==
    IF PathExists(files, dest_path)
    THEN Returned(files, <<url>>, dest_path, <<>>, url)
    ELSE IF RetryApplies(resp.content, resp.headers, url)
    THEN WritePrimary(files, url, resp.content, dest_path,
                      TryAlternates(files, web, Candidates(url), 1, base_dir,
                                    filename, <<url>>))
    ELSE WritePrimary(files, url, resp.content, dest_path,
                      [outcome |-> "fell", gets |-> <<url>>])

\* from the file name of the primary response on
WithFilename(files, web, url, base_dir, resp, filename) ==
    AtPrimaryPath(files, web, url, base_dir, resp, filename, Append(base_dir, filename))

\* from the primary fetch on: an error of the fetch leaves the function
AfterPrimaryFetch(files, web, url, base_dir, resp) ==
    IF ~resp.ok THEN Raised(files, <<url>>)
    ELSE WithFilename(files, web, url, base_dir, resp, PrimaryFilename(resp.headers, url))

download_file(files, web, url, folder, dl_title, dl_subtitle) ==
    AfterPrimaryFetch(files, web, url, BaseDir(folder, dl_title, dl_subtitle),
                      _download_once(web, url))

(***************************************************************************)
(* Specification of the sanitizer: the argument is a run of letters of     *)
(* any of a few lengths around the slice bound, followed by a short tail   *)
(* over an alphabet that holds a letter, a forbidden character, the dot    *)
(* and two kinds of whitespace.                                            *)
(***************************************************************************)
MaxTail == 3

DirAlphabet == {"a", "/", ".", " ", "\t"}

RunLengths == {0, 1, MaxDirLen - 2, MaxDirLen - 1, MaxDirLen}

Tails == UNION {[1..k -> DirAlphabet] : k \in 0..MaxTail}

DirInputs == {[i \in 1..n |-> "a"] \o t : n \in RunLengths, t \in Tails}

InitDir ==
    /\ name \in DirInputs
    /\ sanitized = NotYet
    /\ fs = {} /\ remote = NotYet /\ calls = 0
    /\ last = NotYet /\ prev = NotYet
    /\ ActsIdle

SafeDirname ==
    /\ sanitized = NotYet
    /\ sanitized' = _safe_dirname(name)
    /\ UNCHANGED <<name, dlVars, actsVars>>

NextDir == SafeDirname

SpecDir == InitDir /\ [][NextDir]_vars

(***************************************************************************)
(* Specification of the downloader: a run is a bounded sequence of         *)
(* download_file calls against servers whose answers are fixed at the      *)
(* start of the run.                                                       *)
(***************************************************************************)
MaxCalls == 2

\* Content-Disposition headers
CDBoth ==
    <<"attachment", ";", " ", "filename", "*", "=", "UTF-8", "'", "'", "a.pdf",
      ";", " ", "filename", "=", "\"", "b.pdf", "\"">>
CDQuoted == <<"attachment", ";", " ", "filename", "=", "\"", "b.pdf", "\"">>
CDBare   == <<"attachment", ";", " ", "filename", " ", "=", " ", "c.pdf", " ">>
CDBlank  == <<"attachment", ";", " ", "filename", "=", " ">>
CDInline == <<"inline">>

\* Content-Type headers
CTHtml == <<"text", "/", "html">>
CTPdf  == <<"Application", "/", "PDF">>

Headers(ct, cd) ==
    [k \in (IF ct = NoneVal THEN {} ELSE {"Content-Type"})
           \cup (IF cd = NoneVal THEN {} ELSE {"Content-Disposition"})
       |-> IF k = "Content-Type" THEN ct ELSE cd]

\* bodies; the last byte tells which server sent it
HtmlBody(tag)  == <<"<", "h", "t", "m", "l", ">", tag>>
PdfBody(tag)   == <<"%", "P", "D", "F", "-", tag>>
WsPdfBody(tag) == <<"\n", " ", "%", "P", "D", "F", tag>>

ErrorResponse == [ok |-> FALSE, headers |-> Headers(NoneVal, NoneVal), content |-> <<>>]

ResponsesOf(tag) ==
    {ErrorResponse}
    \cup {[ok |-> TRUE, headers |-> Headers(CTHtml, cd), content |-> HtmlBody(tag)] :
             cd \in {NoneVal, CDQuoted, CDBlank}}
    \cup {[ok |-> TRUE, headers |-> Headers(CTPdf, CDInline), content |-> HtmlBody(tag)],
          [ok |-> TRUE, headers |-> Headers(CTHtml, NoneVal), content |-> PdfBody(tag)],
          [ok |-> TRUE, headers |-> Headers(NoneVal, CDBare), content |-> PdfBody(tag)],
          [ok |-> TRUE, headers |-> Headers(CTHtml, CDBoth), content |-> WsPdfBody(tag)]}

Webs == [primary : ResponsesOf("0"), altA : ResponsesOf("1"), altB : ResponsesOf("2")]

GovAttachment  == <<"https:", "/", "/", "www", ".", "gov", ".", "pl", "/", "attachment", "/", "42">>
GovAttachSlash == GovAttachment \o <<"/">>
GovAttachQuery == GovAttachment \o <<"?", "x=1">>
ComAttachment  == <<"https:", "/", "/", "example", ".", "com", "/", "attachment", "/", "42">>
GovFinanseDoc  == <<"https:", "/", "/", "www", ".", "gov", ".", "pl", "/", "web", "/", "finanse", "/", "doc.pdf">>

LegalActs == <<"legal_acts">>
TitleT    == <<"T", ":", " ", "1", ".">>
SubS      == <<"S">>

Target(u, t, st) == [url |-> u, title |-> t, subtitle |-> st]

Targets ==
    {Target(u, TitleT, NoneVal) :
        u \in {GovAttachment, GovAttachSlash, GovAttachQuery, ComAttachment, GovFinanseDoc}}
    \cup {Target(GovAttachment, TitleT, SubS), Target(GovAttachment, NoneVal, NoneVal)}

\* a file left by an earlier run
OldFile == <<"o", "l", "d">>

InitialFiles ==
    {{}, {<<(<<LegalActs, _safe_dirname(TitleT), <<"b.pdf">>>>), OldFile>>}}

\* last and prev before any call
NoCall ==
    [target |-> Target(<<>>, NoneVal, NoneVal), before |-> {}, outcome |-> "none",
     ret |-> NoPath, gets |-> <<>>, wrote |-> <<>>, source |-> <<>>]

NoPrev == [target |-> Target(<<>>, NoneVal, NoneVal), outcome |-> "none", ret |-> NoPath]

InitDL ==
    /\ fs \in InitialFiles
    /\ remote \in Webs
    /\ calls = 0
    /\ last = NoCall
    /\ prev = NoPrev
    /\ name = <<>> /\ sanitized = NotYet
    /\ ActsIdle

\* the call leaves r behind
Record(t, r) ==
    /\ calls' = calls + 1
    /\ fs' = r.files
    /\ last' = [target |-> t, before |-> fs, outcome |-> r.outcome,
                ret |-> r.ret, gets |-> r.gets, wrote |-> r.wrote,
                source |-> r.source]
    /\ prev' = [target |-> last.target, outcome |-> last.outcome, ret |-> last.ret]

\* one call download_file(url, "legal_acts", title, subtitle)
DownloadFile(t) ==
    /\ calls < MaxCalls
    /\ Record(t, download_file(fs, remote, t.url, LegalActs, t.title, t.subtitle))
    /\ UNCHANGED <<remote, dirVars, actsVars>>

NextDL == \E t \in Targets : DownloadFile(t)

SpecDL == InitDL /\ [][NextDL]_vars

(***************************************************************************)
(* find_acts, find_articles and the three page fetches.  A fetch of a page *)
(* is a record: ok is FALSE when requests.get or raise_for_status raises;  *)
(* matches are the {title, link} records the loop over the elements        *)
(* selected for the page's profile builds (both fields non-empty).         *)
(***************************************************************************)
RclHost      == <<"legislacja", ".", "rcl", ".", "gov", ".", "pl">>
SejmHost     == <<"sejm", ".", "gov", ".", "pl">>
DziennikHost == <<"dziennikustaw", ".", "gov", ".", "pl">>
FinansePath  == <<"/", "web", "/", "finanse">>

\* urlparse(url).netloc.lower() and urlparse(url).path.lower()
HostOf(url) == Lower(Netloc(url))

LowerPathOf(url) == Lower(UrlPath(url))

\* the rule find_acts selects by: the first test that holds
ProfileOf(host, path) ==
    IF Contains(host, RclHost) THEN "RCL"
    ELSE IF Contains(host, SejmHost) THEN "SEJM"
    ELSE IF Contains(host, DziennikHost) THEN "DZIENNIK"
    ELSE IF EndsWith(host, <<"gov", ".", "pl">>) /\ Contains(path, FinansePath)
         THEN "FINANSE"
    ELSE "UNKNOWN"

Profile(url) == ProfileOf(HostOf(url), LowerPathOf(url))

\* find_acts: what the profile's selector matches, nothing for other hosts
find_acts(url, matches) ==
    IF Profile(url) = "UNKNOWN" THEN <<>> ELSE matches

\* find_articles: the timeline labels of an RCL page, nothing for others
find_articles(url, matches) ==
    IF Contains(HostOf(url), RclHost) THEN matches ELSE <<>>

\* downloadable_acts: [] when the fetch raises
downloadable_acts(url, fetch) ==
    IF fetch.ok THEN find_acts(url, fetch.matches) ELSE <<>>

\* fetch_subpages: [] when the fetch raises
fetch_subpages(main_url, fetch) ==
    IF fetch.ok THEN find_articles(main_url, fetch.matches) ELSE <<>>

\* get_title_from_url: the element the if/else of lines 291-294 leaves in
\* title (it assigns in both branches, so what lines 287-290 assigned is
\* overwritten); no host holds a "/"
TitleElement(host, page) ==
    IF \/ Contains(host, DziennikHost)
       \/ Contains(host, <<"gov", ".", "pl", "/", "web", "/", "finanse">>)
    THEN page.h2
    ELSE page.title_tag

\* title.get_text(strip=True) if title else "untitled"
TextOrUntitled(element) ==
    IF element = NoneVal THEN Untitled ELSE Strip(element, Whitespace)

\* the value returned: the empty list when the fetch raises
get_title_from_url(url, fetch) ==
    IF fetch.ok THEN TextOrUntitled(TitleElement(HostOf(url), fetch.page)) ELSE <<>>

(***************************************************************************)
(* get_acts, one action for each fetch or download it makes and for each   *)
(* branch it takes.                                                        *)
(***************************************************************************)
Terminated == pc \in {"done", "raised"}

\* line 314: the test of the first if
EnterTimeline ==
    /\ pc = "line314"
    /\ IF Contains(HostOf(root), RclHost)
       THEN pc' = "rcl_title" /\ ran' = ran \cup {"timeline"}
       ELSE pc' = "line322" /\ UNCHANGED ran
    /\ UNCHANGED <<root, title, subpages, subtitle, acts, log, dirVars, dlVars>>

\* lines 315 and 324: title = get_title_from_url(url)
GetTitle(fetch) ==
    /\ pc \in {"rcl_title", "page_title"}
    /\ title' = get_title_from_url(root, fetch)
    /\ log' = IF fetch.ok THEN log ELSE log \cup {"error"}
    /\ pc' = IF pc = "rcl_title" THEN "rcl_subpages" ELSE "page_acts"
    /\ UNCHANGED <<root, subpages, subtitle, acts, ran, dirVars, dlVars>>

\* line 316: subpages = fetch_subpages(url)
FetchSubpages(fetch) ==
    /\ pc = "rcl_subpages"
    /\ subpages' = fetch_subpages(root, fetch)
    /\ log' = IF fetch.ok THEN log ELSE log \cup {"error"}
    /\ ran' = ran \cup {"discovery"}
    /\ pc' = "rcl_subpage_loop"
    /\ UNCHANGED <<root, title, subtitle, acts, dirVars, dlVars>>

\* lines 317-318: the next subpage and its documents; after the last
\* subpage the second if follows
NextSubpage(fetch) ==
    /\ pc = "rcl_subpage_loop"
    /\ IF subpages = <<>>
       THEN pc' = "line322" /\ UNCHANGED <<subpages, subtitle, acts, log>>
       ELSE /\ subtitle' = Head(subpages).title
            /\ acts' = downloadable_acts(Head(subpages).link, fetch)
            /\ log' = IF fetch.ok THEN log ELSE log \cup {"error"}
            /\ subpages' = Tail(subpages)
            /\ pc' = "rcl_act_loop"
    /\ UNCHANGED <<root, title, ran, dirVars, dlVars>>

\* a download_file call of a loop: an exception leaves get_acts
Download(r, next) ==
    /\ fs' = r.files
    /\ acts' = Tail(acts)
    /\ pc' = IF r.outcome = "raised" THEN "raised"
             ELSE IF Tail(acts) = <<>> THEN next
             ELSE pc

\* lines 319-321: download_file(act['link'], "legal_acts", title, subpage['title'])
DownloadSubpageAct ==
    /\ pc = "rcl_act_loop"
    /\ IF acts = <<>>
       THEN pc' = "rcl_subpage_loop" /\ UNCHANGED <<acts, fs>>
       ELSE Download(download_file(fs, remote, Head(acts).link, LegalActs, title, subtitle),
                     "rcl_subpage_loop")
    /\ UNCHANGED <<root, title, subpages, subtitle, ran, log, dirVars,
                   remote, calls, last, prev>>

\* lines 322-323 and 330-331: the test of the second if, and its else
EnterPage ==
    /\ pc = "line322"
    /\ IF \/ Contains(HostOf(root), SejmHost)
          \/ Contains(HostOf(root), DziennikHost)
          \/ (EndsWith(HostOf(root), <<"gov", ".", "pl">>)
                 /\ Contains(LowerPathOf(root), FinansePath))
       THEN pc' = "page_title" /\ ran' = ran \cup {"page"} /\ UNCHANGED log
       ELSE pc' = "done" /\ log' = log \cup {"unsupported"} /\ UNCHANGED ran
    /\ UNCHANGED <<root, title, subpages, subtitle, acts, dirVars, dlVars>>

\* line 325: acts = downloadable_acts(url)
FetchActs(fetch) ==
    /\ pc = "page_acts"
    /\ acts' = downloadable_acts(root, fetch)
    /\ log' = IF fetch.ok THEN log ELSE log \cup {"error"}
    /\ ran' = ran \cup {"discovery"}
    /\ pc' = "page_act_loop"
    /\ UNCHANGED <<root, title, subpages, subtitle, dirVars, dlVars>>

\* lines 326-329: download_file(link, "legal_acts", title, None)
DownloadPageAct ==
    /\ pc = "page_act_loop"
    /\ IF acts = <<>>
       THEN pc' = "done" /\ UNCHANGED <<acts, fs>>
       ELSE Download(download_file(fs, remote, Head(acts).link, LegalActs, title, NoneVal),
                     "done")
    /\ UNCHANGED <<root, title, subpages, subtitle, ran, log, dirVars,
                   remote, calls, last, prev>>

(***************************************************************************)
(* Specification of get_acts: one call, on one of six URLs, against pages  *)
(* and servers that answer or fail.                                        *)
(***************************************************************************)
Https(host, path) == <<"https:", "/", "/">> \o host \o path

RclProject   == Https(RclHost, <<"/", "projekt", "/", "1">>)
RclCatalog1  == Https(RclHost, <<"/", "projekt", "/", "1", "/", "katalog", "/", "1">>)
RclCatalog2  == Https(RclHost, <<"/", "projekt", "/", "1", "/", "katalog", "/", "2">>)
RclFinanse   == Https(RclHost, <<"/", "web", "/", "finanse">>)
SejmPage     == Https(<<"www", ".">> \o SejmHost, <<"/", "druki">>)
DziennikPage == Https(DziennikHost, <<"/", "DU", "/", "2024">>)
FinansePage  == Https(<<"www", ".", "gov", ".", "pl">>, FinansePath \o <<"/", "akty">>)
UnknownPage  == Https(<<"example", ".", "com">>, <<"/", "akty">>)

Roots == {RclProject, RclFinanse, SejmPage, DziennikPage, FinansePage, UnknownPage}

Item(t, l) == [title |-> t, link |-> l]

SubpageLists ==
    {<<>>,
     <<Item(<<"Etap", " ", "1">>, RclCatalog1)>>,
     <<Item(<<"Etap", " ", "1">>, RclCatalog1), Item(<<"Etap", ":", "2">>, RclCatalog2)>>}

ActLists ==
    {<<>>,
     <<Item(<<"Projekt">>, GovAttachment)>>,
     <<Item(<<"Projekt">>, GovAttachment), Item(<<"Uzasadnienie">>, GovFinanseDoc)>>}

FailedFetch == [ok |-> FALSE, matches |-> <<>>]

Fetches(lists) == {FailedFetch} \cup {[ok |-> TRUE, matches |-> m] : m \in lists}

\* title pages: with both elements, with an empty <title>, with neither
TitlePages ==
    {[title_tag |-> <<" ", "Projekt", "/", "1">>, h2 |-> <<"Ustawa", ".">>],
     [title_tag |-> <<>>, h2 |-> NoneVal],
     [title_tag |-> NoneVal, h2 |-> NoneVal]}

TitleFetches ==
    {[ok |-> FALSE, page |-> [title_tag |-> NoneVal, h2 |-> NoneVal]]}
    \cup {[ok |-> TRUE, page |-> p] : p \in TitlePages}

\* the servers of the documents
ActsWebs ==
    [primary : {ErrorResponse,
                [ok |-> TRUE, headers |-> Headers(CTHtml, NoneVal), content |-> HtmlBody("0")],
                [ok |-> TRUE, headers |-> Headers(NoneVal, CDBare), content |-> PdfBody("0")]},
     altA    : {ErrorResponse,
                [ok |-> TRUE, headers |-> Headers(CTPdf, CDQuoted), content |-> PdfBody("1")]},
     altB    : {ErrorResponse}]

InitActs ==
    /\ pc = "line314"
    /\ root \in Roots
    /\ title = <<>> /\ subpages = <<>> /\ subtitle = <<>> /\ acts = <<>>
    /\ ran = {} /\ log = {}
    /\ fs = {}
    /\ remote \in ActsWebs
    /\ calls = 0 /\ last = NoCall /\ prev = NoPrev
    /\ name = <<>> /\ sanitized = NotYet

NextActs ==
    \/ EnterTimeline
    \/ \E fetch \in TitleFetches : GetTitle(fetch)
    \/ \E fetch \in Fetches(SubpageLists) : FetchSubpages(fetch)
    \/ \E fetch \in Fetches(ActLists) : NextSubpage(fetch)
    \/ DownloadSubpageAct
    \/ EnterPage
    \/ \E fetch \in Fetches(ActLists) : FetchActs(fetch)
    \/ DownloadPageAct

SpecActs == InitActs /\ [][NextActs]_vars

\* the profile of each URL, by the first-match order RCL, SEJM, DZIENNIK,
\* FINANSE, UNKNOWN
ProfileByOrder(url) ==
    IF url \in {RclProject, RclFinanse} THEN "RCL"
    ELSE IF url = SejmPage THEN "SEJM"
    ELSE IF url = DziennikPage THEN "DZIENNIK"
    ELSE IF url = FinansePage THEN "FINANSE"
    ELSE "UNKNOWN"

\* C4: a download that fails with a transport error of the primary fetch
\* stops only that document: when get_acts ends, no discovered document
\* and no subpage is left unattempted.
C4_FailureIsolated ==
    Terminated => acts = <<>> /\ subpages = <<>>

\* C5: get_acts runs the flow of exactly the one profile of the URL, and
\* the "Unsupported host" warning is logged exactly for an UNKNOWN URL,
\* never together with a discovery.
C5_ExactlyOneProfile ==
    /\ Profile(root) = ProfileByOrder(root)
    /\ Terminated =>
          /\ ("unsupported" \in log) <=> (ProfileByOrder(root) = "UNKNOWN")
          /\ ("unsupported" \in log) => ("discovery" \notin ran)
          /\ Cardinality(ran \cap {"timeline", "page"}) <= 1

\* the folders the title pages of the run sanitize to
TitleDirs == {<<"Projekt", "_", "1">>, <<"Ustawa">>, Untitled}

\* C8: every saved file is at legal_acts/<title>/<subpage title>/<file> for
\* an RCL URL and at legal_acts/<title>/<file> for the other profiles, also
\* when the fetch of the title page fails.
C8_OutputLayout ==
    \A f \in fs :
        /\ Len(f[1]) = IF ProfileByOrder(root) = "RCL" THEN 4 ELSE 3
        /\ f[1][1] = LegalActs
        /\ f[1][2] \in TitleDirs

(***************************************************************************)
(* What is expected of the last call, stated on the inputs of the run      *)
(* and not through the operators of download_file.                         *)
(***************************************************************************)
OnDisk(files, p) == \E f \in files : f[1] = p

LastUrl == last.target.url

\* the directory the call saves into: "T: 1." sanitizes to "T_ 1"
TitleDir == <<"T", "_", " ", "1">>

LastBaseDir ==
    <<LegalActs>>
    \o (IF last.target.title = TitleT THEN <<TitleDir>> ELSE <<>>)
    \o (IF last.target.subtitle = SubS THEN <<SubS>> ELSE <<>>)

\* the file name each Content-Disposition header of the run stands for:
\* extended form, else quoted form, else bare form, else none
NameInCD(headers) ==
    LET cd == HeaderGet(headers, "Content-Disposition", NoneVal)
    IN  IF cd = CDBoth THEN <<"a.pdf">>
        ELSE IF cd = CDQuoted THEN <<"b.pdf">>
        ELSE IF cd = CDBare THEN <<"c.pdf">>
        ELSE NoneVal

\* the last path segment of each URL of the run
LastSegment(url) ==
    IF url = GovFinanseDoc THEN <<"doc.pdf">>
    ELSE IF url = GovAttachSlash THEN <<>>
    ELSE <<"42">>

\* the two alternates of each URL the retry applies to
RetryUrls == {GovAttachment, GovAttachSlash, GovAttachQuery}

AlternateA(url) ==
    IF url = GovAttachQuery THEN GovAttachQuery \o <<"/", "download">>
    ELSE GovAttachment \o <<"/", "download">>

AlternateB(url) ==
    IF url = GovAttachQuery THEN GovAttachQuery \o <<"&", "download=1">>
    ELSE url \o <<"?", "download=1">>

\* header, else last path segment, else the generic name
NameByPrecedence(headers, segment) ==
    IF NameInCD(headers) # NoneVal THEN NameInCD(headers)
    ELSE IF segment # <<>> THEN segment
    ELSE FallbackName

LastPrimaryDest ==
    Append(LastBaseDir, NameByPrecedence(remote.primary.headers, LastSegment(LastUrl)))

Passes(resp) == resp.ok /\ _looks_like_pdf(resp.content, resp.headers)

\* sniff failed on a primary response of a gov.pl /attachment/ URL
RetryEligible ==
    /\ remote.primary.ok
    /\ ~Passes(remote.primary)
    /\ LastUrl \in RetryUrls

RetryCond == RetryEligible /\ ~OnDisk(last.before, LastPrimaryDest)

\* the response the returned path was derived from
SourceResponse ==
    IF last.source = LastUrl THEN remote.primary
    ELSE IF last.source = AlternateA(LastUrl) THEN remote.altA
    ELSE remote.altB

\* the call returned a file holding resp's body, written unless the path
\* was there already
SavedFrom(resp) ==
    /\ last.outcome = "returned"
    /\ SubSeq(last.ret, 1, Len(last.ret) - 1) = LastBaseDir
    /\ IF OnDisk(last.before, last.ret)
       THEN last.wrote = <<>> /\ fs = last.before
       ELSE last.wrote = <<last.ret>> /\ fs = last.before \cup {<<last.ret, resp.content>>}

\* the last call repeats the call before it, which returned a path that is
\* still there
RepeatCall ==
    /\ calls >= 2
    /\ last.target = prev.target
    /\ prev.outcome = "returned"
    /\ OnDisk(last.before, prev.ret)

\* C1 (as claimed): a repeated call returns the same path and issues no
\* HTTP GET.
C1_RepeatNoGet ==
    RepeatCall => last.ret = prev.ret /\ last.gets = <<>>

\* C1 (amended): a repeated call returns the same path and writes no file;
\* it fetches the primary URL again before it looks at the disk.
C1_RepeatSamePathNoWrite ==
    RepeatCall =>
        /\ last.outcome = "returned"
        /\ last.ret = prev.ret
        /\ last.wrote = <<>>
        /\ fs = last.before
        /\ Len(last.gets) >= 1
        /\ last.gets[1] = LastUrl

\* a repeated call that fetched an alternate again
C1_Witness == RepeatCall /\ Len(last.gets) >= 2 /\ last.ret = prev.ret

\* C2: under the retry condition the alternates are fetched in the order
\* "/download" then "download=1", fetching stops at the first that passes
\* the sniff and its body is what is saved; without the condition no
\* alternate is fetched.
C2_RetryOrder ==
    calls >= 1 =>
        IF RetryCond
        THEN IF Passes(remote.altA)
             THEN /\ last.gets = <<LastUrl, AlternateA(LastUrl)>>
                  /\ SavedFrom(remote.altA)
             ELSE /\ last.gets = <<LastUrl, AlternateA(LastUrl), AlternateB(LastUrl)>>
                  /\ (Passes(remote.altB) => SavedFrom(remote.altB))
        ELSE last.gets = <<LastUrl>>

\* the second alternate was fetched after the first failed, and its body
\* was saved
C2_Witness ==
    /\ calls >= 1 /\ RetryCond
    /\ remote.altA.ok /\ ~Passes(remote.altA) /\ Passes(remote.altB)
    /\ Len(last.gets) = 3
    /\ last.wrote = <<last.ret>>
    /\ <<last.ret, remote.altB.content>> \in fs

\* C3: a transport error of the primary fetch propagates and nothing is
\* written; a transport error of an alternate is swallowed, the next
\* alternate is fetched and the call returns a path.
C3_ErrorPolicy ==
    calls >= 1 =>
        /\ ~remote.primary.ok =>
              last.outcome = "raised" /\ last.wrote = <<>> /\ fs = last.before
        /\ remote.primary.ok =>
              last.outcome = "returned" /\ last.ret # NoPath
        /\ (RetryCond /\ ~remote.altA.ok) =>
              last.gets = <<LastUrl, AlternateA(LastUrl), AlternateB(LastUrl)>>

\* both alternates raised and the call returned the primary path
C3_Witness ==
    /\ calls >= 1 /\ RetryCond
    /\ ~remote.altA.ok /\ ~remote.altB.ok
    /\ last.outcome = "returned" /\ Len(last.gets) = 3
    /\ last.ret = LastPrimaryDest

\* C7 (as claimed): the file name of every response used, primary or
\* alternate, is the header's name, else the last path segment of the URL
\* fetched, else the generic name.
C7_SamePrecedenceEverywhere ==
    (calls >= 1 /\ last.outcome = "returned") =>
        last.ret = Append(LastBaseDir,
                          NameByPrecedence(SourceResponse.headers,
                                           Basename(UrlPath(last.source))))

\* C7 (amended): for the primary response as claimed; for an alternate the
\* header's name by the same precedence, else the file name of the primary
\* response.
C7_AlternateFallsBackToPrimaryName ==
    (calls >= 1 /\ last.outcome = "returned") =>
        last.ret = IF last.source = LastUrl \/ NameInCD(SourceResponse.headers) = NoneVal
                   THEN LastPrimaryDest
                   ELSE Append(LastBaseDir, NameInCD(SourceResponse.headers))

\* an alternate without a usable header was saved under the name the
\* header of the primary response gave
C7_Witness ==
    /\ calls >= 1 /\ last.outcome = "returned"
    /\ last.source # LastUrl
    /\ NameInCD(SourceResponse.headers) = NoneVal
    /\ NameInCD(remote.primary.headers) = <<"b.pdf">>
    /\ last.ret = Append(LastBaseDir, <<"b.pdf">>)

\* C9: when the primary fetch succeeds, nothing is at the primary path and
\* either no retry applies or every alternate failed, the primary body is
\* written to the primary path, which is returned; when no retry applies
\* no alternate is fetched.
C9_BestEffortFallthrough ==
    (/\ calls >= 1
     /\ remote.primary.ok
     /\ ~OnDisk(last.before, LastPrimaryDest)
     /\ (~RetryEligible \/ (~Passes(remote.altA) /\ ~Passes(remote.altB)))) =>
        /\ last.outcome = "returned"
        /\ last.ret = LastPrimaryDest
        /\ last.wrote = <<LastPrimaryDest>>
        /\ fs = last.before \cup {<<LastPrimaryDest, remote.primary.content>>}
        /\ ~RetryEligible => last.gets = <<LastUrl>>

\* an HTML body served as text/html from a URL without /attachment/ was
\* saved and no alternate was fetched
C9_Witness ==
    /\ calls >= 1
    /\ LastUrl = GovFinanseDoc
    /\ remote.primary.ok /\ ~Passes(remote.primary)
    /\ last.gets = <<LastUrl>>
    /\ <<LastPrimaryDest, remote.primary.content>> \in fs
    /\ last.wrote = <<LastPrimaryDest>>

\* C10: a call leaves every file that was there as it was, writes at most
\* one file, only at a path that was not there, and the path it returns
\* exists.
C10_NoOverwrite ==
    calls >= 1 =>
        /\ last.before \subseteq fs
        /\ Len(last.wrote) <= 1
        /\ \A i \in 1..Len(last.wrote) : ~OnDisk(last.before, last.wrote[i])
        /\ \A f \in fs \ last.before : \E i \in 1..Len(last.wrote) : f[1] = last.wrote[i]
        /\ \A f, g \in fs : f[1] = g[1] => f = g
        /\ last.outcome = "returned" => OnDisk(fs, last.ret)

\* an alternate passed the sniff, its path was there already and nothing
\* was written
C10_Witness ==
    /\ calls >= 1 /\ last.outcome = "returned"
    /\ last.source # LastUrl
    /\ OnDisk(last.before, last.ret)
    /\ last.wrote = <<>>
    /\ fs = last.before

\* C6: for every input the result of _safe_dirname is non-empty, holds no
\* forbidden character, is at most 120 long and does not end with a dot or
\* a space.
C6_SanitizedWellFormed ==
    sanitized # NotYet =>
        /\ sanitized # <<>>
        /\ \A i \in 1..Len(sanitized) : sanitized[i] \notin Forbidden
        /\ Len(sanitized) <= MaxDirLen
        /\ sanitized[Len(sanitized)] \notin {".", " "}
        /\ (Prefix(Strip(Strip(SubForbidden(name), Whitespace), {" ", "."}), MaxDirLen) = <<>>
               => sanitized = Untitled)

====
